---------------------------- MODULE Spec2Model ----------------------------
(***************************************************************************)
(* Model of build_intervals (src/aggregate.py, lines 174-251): the         *)
(* per-plate walk that pairs ENTRY/EXIT events into intervals and reports  *)
(* every irregular sequence as an issue; of load_events (lines 127-171),   *)
(* which hands it its frame, and of summarize_monthly (lines 254-269),     *)
(* which totals its intervals per plate and month.                         *)
(*                                                                         *)
(* A row of the events frame is a record [plate, event, timestamp].  A     *)
(* plate is a sequence of characters, so that str.isdigit and the key      *)
(* order of groupby are computed, not looked up.  A timestamp is a whole   *)
(* number of seconds; duration_minutes is kept in hundredths of a minute,  *)
(* the resolution round(duration, 2) leaves.                               *)
(*                                                                         *)
(* The frame build_intervals returns and summarize_monthly (lines 254-269) *)
(* reads keeps the float column duration_minutes in thousandths of a       *)
(* minute, so that a sum and its rounding to two decimals can differ.      *)
(***************************************************************************)
EXTENDS Integers, Sequences, FiniteSets, TLC

VARIABLES
    events,        \* the frame handed to build_intervals (rows in input order)
    pc,            \* position in build_intervals
    keys,          \* group keys groupby has still to yield, ascending
    plate,         \* loop variable `plate`
    group,         \* loop variable `group` after sort_values: row numbers
    pos,           \* next row of `group` that iterrows yields
    open_entry,    \* local `open_entry`: None or the open ENTRY's timestamp
    intervals,     \* list `intervals`
    issues,        \* list `issues`
    open_src,      \* history: row number of the ENTRY held in open_entry (0: none)
    interval_src,  \* history: <<entry row, exit row>> of each interval
    issue_src,     \* history: row that each issue reports
    intervals_df,  \* the frame build_intervals returns (`intervals_df`)
    monthly,       \* the frame summarize_monthly returns
    argsort        \* the order sort_values returns each group in

vars == <<events, pc, keys, plate, group, pos, open_entry, intervals, issues,
          open_src, interval_src, issue_src, intervals_df, monthly, argsort>>

-----------------------------------------------------------------------------
(* Bounds of the model *)

\* rows of a mixed batch (any plates, any kinds, tied timestamps)
MaxEvents == 3

\* instants of a mixed batch
MaxTime == 2

\* rows of a single-plate batch whose timestamps are all distinct
MaxDistinct == 4

\* rows of an intervals frame handed to summarize_monthly on its own
MaxIntervals == 2

\* rows of the sheets handed to load_events
MaxRaw == 2

-----------------------------------------------------------------------------
(* Program constants *)

\* numpy's introsort, which sort_values(kind="quicksort") reaches, partitions
\* only a range with pr - pl > 16 and insertion-sorts every shorter one.
SmallQuicksort == 16

ENTRY == "01 ENTRY"

EXIT == "02 EXIT"

\* any other text of the event column: load_events does not filter on it
UNKNOWN == "03 OTHER"

Kinds == {ENTRY, EXIT, UNKNOWN}

HAZARD_PLATE == "Hazard plate number"

CONSECUTIVE_ENTRY == "Consecutive ENTRY without EXIT"

EXIT_WITHOUT_ENTRY == "EXIT without matching ENTRY"

EXIT_BEFORE_ENTRY == "EXIT earlier than ENTRY"

ENTRY_WITHOUT_EXIT == "ENTRY without matching EXIT"

None == <<>>

Some(t) == <<t>>

-----------------------------------------------------------------------------
(* Strings *)

Digits == {"0", "1", "2", "3", "4", "5", "6", "7", "8", "9"}

\* code point of the characters the plates of the model are written with
Ord(c) ==
    CASE c = "-" -> 45 [] c = "0" -> 48 [] c = "1" -> 49
      [] c = "2" -> 50 [] c = "4" -> 52 [] c = "7" -> 55
      [] c = "A" -> 65 [] c = "B" -> 66 [] c = "C" -> 67

\* str.isdigit: non-empty and every character a digit
IsDigit(s) == Len(s) > 0 /\ \A i \in 1..Len(s) : s[i] \in Digits

\* str.__lt__: lexicographic by code point
RECURSIVE StrLess(_, _)
StrLess(a, b) ==
    IF b = <<>> THEN FALSE
    ELSE IF a = <<>> THEN TRUE
    ELSE IF Ord(a[1]) # Ord(b[1]) THEN Ord(a[1]) < Ord(b[1])
    ELSE StrLess(Tail(a), Tail(b))

HazardPlate == <<"4", "2">>

PlateA == <<"A", "7">>

PlateB == <<"B", "C">>

Plates == {HazardPlate, PlateA, PlateB}

Times == 1..MaxTime

\* Timestamp.isoformat: the text of the instant
Isoformat(t) == [iso |-> t]

-----------------------------------------------------------------------------
(* groupby("plate") and sort_values("timestamp") *)

\* the group keys of the frame
GroupKeys(ev) == {ev[i].plate : i \in 1..Len(ev)}

\* groupby yields the keys in ascending order (sort=True)
RECURSIVE SortedKeys(_)
SortedKeys(S) ==
    IF S = {} THEN <<>>
    ELSE LET m == CHOOSE k \in S : \A o \in S \ {k} : StrLess(k, o)
         IN  <<m>> \o SortedKeys(S \ {m})

\* the rows of one group, in the order of the frame
RECURSIVE RowsFrom(_, _, _)
RowsFrom(ev, p, i) ==
    IF i > Len(ev) THEN <<>>
    ELSE (IF ev[i].plate = p THEN <<i>> ELSE <<>>) \o RowsFrom(ev, p, i + 1)

GroupRows(ev, p) == RowsFrom(ev, p, 1)

\* insertion sort's inner loop: the row moves left past every row with a
\* strictly greater timestamp
RECURSIVE InsertRow(_, _, _)
InsertRow(ev, sorted, r) ==
    IF sorted = <<>> THEN <<r>>
    ELSE LET last == sorted[Len(sorted)]
         IN  IF ev[r].timestamp < ev[last].timestamp
             THEN Append(InsertRow(ev, SubSeq(sorted, 1, Len(sorted) - 1), r), last)
             ELSE Append(sorted, r)

RECURSIVE InsertionSort(_, _, _)
InsertionSort(ev, rows, n) ==
    IF n = 0 THEN <<>>
    ELSE InsertRow(ev, InsertionSort(ev, rows, n - 1), rows[n])

\* every order of the rows that is ascending by timestamp
RECURSIVE AscendingOrders(_, _)
AscendingOrders(ev, S) ==
    IF S = {} THEN {<<>>}
    ELSE LET firsts == {r \in S : \A o \in S : ev[r].timestamp <= ev[o].timestamp}
         IN  UNION {{<<r>> \o rest : rest \in AscendingOrders(ev, S \ {r})} : r \in firsts}

\* a slip: the group walked as it stands in the batch
SortValuesOmitted(ev, rows) == {rows}

\* sort_values("timestamp"), kind="quicksort" by default: ascending by
\* timestamp.  Up to SmallQuicksort + 1 rows it is an insertion sort, which
\* keeps tied rows in their order; above, tied rows come out in an order the
\* partitioning decides, which pandas leaves open.
SortValues(ev, rows) ==
    IF Len(rows) - 1 > SmallQuicksort
    THEN AscendingOrders(ev, {rows[i] : i \in 1..Len(rows)})
    ELSE {InsertionSort(ev, rows, Len(rows))}

\* the orders sort_values can return the groups of a batch in
SortOrders(ev) == [p \in GroupKeys(ev) |-> SortValues(ev, GroupRows(ev, p))]

\* numpy's argsort is a function of the array it is given: which of the
\* orders a group comes out in is settled by the build, not by the run.  The
\* functions that give the groups S of a batch one of their orders each
RECURSIVE ArgsortsOver(_, _)
ArgsortsOver(ev, S) ==
    IF S = {} THEN {<<>>}
    ELSE LET q == CHOOSE p \in S : TRUE
         IN  {[p \in S |-> IF p = q THEN g ELSE rest[p]] :
                 g \in SortValues(ev, GroupRows(ev, q)), rest \in ArgsortsOver(ev, S \ {q})}

Argsorts(ev) == ArgsortsOver(ev, GroupKeys(ev))

-----------------------------------------------------------------------------
(* The body of the walk *)

\* a slip: the hundredths cut off instead of rounded
DurationMinutesTruncated(entry, exit) == (10 * (exit - entry)) \div 6

\* round(duration, 2) of (timestamp - open_entry).total_seconds() / 60.0, in
\* hundredths of a minute: the nearest hundredth of seconds * 100 / 60 (whole
\* seconds never fall half way)
DurationMinutes(entry, exit) == (10 * (exit - entry) + 3) \div 6

\* a slip: the label made up on the spot, outside the five of the report
IssueFreeText(p, kind, t) ==
    [plate |-> p, issue |-> "Anomaly", timestamp |-> Isoformat(t)]

\* the dict of an issue
Issue(p, kind, t) == [plate |-> p, issue |-> kind, timestamp |-> Isoformat(t)]

Interval(p, entry, exit) ==
    [plate |-> p, entry_time |-> entry, exit_time |-> exit,
     duration_minutes |-> DurationMinutes(entry, exit)]

\* The walk state w is [open_entry, intervals, issues, open_src, interval_src,
\* issue_src]; r is the number of the row, t its timestamp.

\* a slip: the new ENTRY's time reported instead of the open one's
OnEntryReportsNew(p, w, r, t) ==
    [w EXCEPT
       !.issues = IF w.open_entry # None
                  THEN Append(@, [plate |-> p, issue |-> CONSECUTIVE_ENTRY,
                                  timestamp |-> Isoformat(t)])
                  ELSE @,
       !.issue_src = IF w.open_entry # None THEN Append(@, w.open_src) ELSE @,
       !.open_entry = Some(t),
       !.open_src = r]

\* a slip: the ENTRY still open reported and kept, the new one dropped
OnEntryKeepsFirst(p, w, r, t) ==
    IF w.open_entry # None
    THEN [w EXCEPT
            !.issues = Append(@, Issue(p, CONSECUTIVE_ENTRY, w.open_entry[1])),
            !.issue_src = Append(@, w.open_src)]
    ELSE [w EXCEPT !.open_entry = Some(t), !.open_src = r]

\* lines 201-210: ENTRY; an ENTRY still open is reported at its own time and
\* replaced
OnEntry(p, w, r, t) ==
    [w EXCEPT
       !.issues = IF w.open_entry # None
                  THEN Append(@, Issue(p, CONSECUTIVE_ENTRY, w.open_entry[1]))
                  ELSE @,
       !.issue_src = IF w.open_entry # None THEN Append(@, w.open_src) ELSE @,
       !.open_entry = Some(t),
       !.open_src = r]

\* a slip: the unmatched EXIT skipped without a word
OnExitWithoutEntrySilent(p, w, r, t) == w

\* lines 212-220: EXIT with no ENTRY open
OnExitWithoutEntry(p, w, r, t) ==
    [w EXCEPT
       !.issues = Append(@, Issue(p, EXIT_WITHOUT_ENTRY, t)),
       !.issue_src = Append(@, r)]

\* lines 222-231: EXIT before the open ENTRY
OnExitBeforeEntry(p, w, r, t) ==
    [w EXCEPT
       !.issues = Append(@, Issue(p, EXIT_BEFORE_ENTRY, t)),
       !.issue_src = Append(@, r),
       !.open_entry = None,
       !.open_src = 0]

\* a slip: the slot left open after the interval
OnExitMatchedKeepsOpen(p, w, r, t) ==
    [w EXCEPT
       !.intervals = Append(@, [plate |-> p, entry_time |-> w.open_entry[1],
                                exit_time |-> t,
                                duration_minutes |-> (10 * (t - w.open_entry[1]) + 3) \div 6]),
       !.interval_src = Append(@, <<w.open_src, r>>)]

\* lines 232-240: the interval, and the slot cleared
OnExitMatched(p, w, r, t) ==
    [w EXCEPT
       !.intervals = Append(@, Interval(p, w.open_entry[1], t)),
       !.interval_src = Append(@, <<w.open_src, r>>),
       !.open_entry = None,
       !.open_src = 0]

\* lines 198-240: one iteration of `for _, row in group.iterrows()`; a row
\* whose event is neither marker changes nothing
WalkStep(ev, p, w, r) ==
    LET event == ev[r].event
        timestamp == ev[r].timestamp
    IN  IF event = ENTRY THEN OnEntry(p, w, r, timestamp)
        ELSE IF event = EXIT
        THEN IF w.open_entry = None THEN OnExitWithoutEntry(p, w, r, timestamp)
             ELSE IF timestamp - w.open_entry[1] < 0
             THEN OnExitBeforeEntry(p, w, r, timestamp)
             ELSE OnExitMatched(p, w, r, timestamp)
        ELSE w

\* a slip: the ENTRY left open never reported
CloseGroupSilent(p, w) == w

\* lines 241-248: the ENTRY still open after the group's last row
CloseGroup(p, w) ==
    IF w.open_entry # None
    THEN [w EXCEPT
            !.issues = Append(@, Issue(p, ENTRY_WITHOUT_EXIT, w.open_entry[1])),
            !.issue_src = Append(@, w.open_src)]
    ELSE w

WalkState ==
    [open_entry |-> open_entry, intervals |-> intervals, issues |-> issues,
     open_src |-> open_src, interval_src |-> interval_src, issue_src |-> issue_src]

SetWalkState(w) ==
    /\ open_entry' = w.open_entry
    /\ intervals' = w.intervals
    /\ issues' = w.issues
    /\ open_src' = w.open_src
    /\ interval_src' = w.interval_src
    /\ issue_src' = w.issue_src

-----------------------------------------------------------------------------
(* Frames: pd.DataFrame and summarize_monthly *)

\* a frame is its column labels and its rows
NoFrame == [columns |-> <<>>, rows |-> <<>>]

\* line 183: the columns of the frame returned for an empty events frame
IntervalColumns == <<"plate", "entry_time", "exit_time", "duration_minutes">>

\* line 257: the columns of the frame returned for an empty intervals frame
MonthlyColumns == <<"plate", "month", "visits", "total_minutes", "total_hours">>

\* the float column holds thousandths of a minute
FrameRow(iv) ==
    [plate |-> iv.plate, entry_time |-> iv.entry_time, exit_time |-> iv.exit_time,
     duration_minutes |-> 10 * iv.duration_minutes]

\* line 250, pd.DataFrame(list of dicts): the columns are the keys of the
\* dicts, so that an empty list gives a frame without any column
DataFrame(list) ==
    IF list = <<>> THEN [columns |-> <<>>, rows |-> <<>>]
    ELSE [columns |-> IntervalColumns, rows |-> [i \in 1..Len(list) |-> FrameRow(list[i])]]

\* DataFrame.empty
Empty(df) == df.rows = <<>>

SecondsPerDay == 24 * 60 * 60

\* instant t of the model is t seconds after 2024-01-31T23:59:58, so that
\* instant 1 is the last second of January and instant 2 the first of February
Epoch == 31 * SecondsPerDay - 2

\* the days of the months of 2024
MonthDays == <<31, 29, 31, 30, 31, 30, 31, 31, 30, 31, 30, 31>>

RECURSIVE DaysBefore(_)
DaysBefore(m) == IF m = 1 THEN 0 ELSE DaysBefore(m - 1) + MonthDays[m - 1]

\* the month of the year an instant falls in
MonthNumber(t) ==
    LET day == (Epoch + t) \div SecondsPerDay
    IN  CHOOSE m \in 1..12 : DaysBefore(m) <= day /\ day < DaysBefore(m) + MonthDays[m]

DigitChar(n) == <<"0", "1", "2", "3", "4", "5", "6", "7", "8", "9">>[n + 1]

\* line 260, dt.to_period("M").astype(str): the text YYYY-MM
MonthOf(t) ==
    <<"2", "0", "2", "4", "-", DigitChar(MonthNumber(t) \div 10),
      DigitChar(MonthNumber(t) % 10)>>

\* a slip: the month taken from the exit
MonthKeyOfExit(row) == [plate |-> row.plate, month |-> MonthOf(row.exit_time)]

\* line 262: the group key of a row of the intervals frame
MonthKey(row) == [plate |-> row.plate, month |-> MonthOf(row.entry_time)]

\* the order groupby(["plate", "month"]) yields the keys in
KeyLess(a, b) ==
    \/ StrLess(a.plate, b.plate)
    \/ a.plate = b.plate /\ StrLess(a.month, b.month)

RECURSIVE SortedMonthKeys(_)
SortedMonthKeys(S) ==
    IF S = {} THEN <<>>
    ELSE LET m == CHOOSE k \in S : \A o \in S \ {k} : KeyLess(k, o)
         IN  <<m>> \o SortedMonthKeys(S \ {m})

\* the rows of one (plate, month) group, in the order of the frame
RowsOfKey(df, k) == SelectSeq(df.rows, LAMBDA row : MonthKey(row) = k)

\* the exact sum of the duration_minutes of a group, in thousandths of a
\* minute
RECURSIVE SumDurations(_)
SumDurations(rows) ==
    IF rows = <<>> THEN 0 ELSE rows[1].duration_minutes + SumDurations(Tail(rows))

\* The column duration_minutes holds IEEE 754 doubles, and lines 263-268
\* compute with them: the arithmetic of doubles follows.

\* a natural number of any size: its bits, the most significant first, no
\* leading zero (TLC's integers end at 2^31, a double's mantissa has 53 bits)

\* the bits of n < 2^30
Bits(n) ==
    LET len == CHOOSE k \in 0..30 : n < 2 ^ k /\ (k = 0 \/ 2 ^ (k - 1) <= n)
    IN  [i \in 1..len |-> (n \div 2 ^ (len - i)) % 2]

\* b without its leading zeros
Trim(b) ==
    LET ones == {i \in 1..Len(b) : b[i] = 1}
    IN  IF ones = {} THEN <<>>
        ELSE SubSeq(b, CHOOSE i \in ones : \A j \in ones : i <= j, Len(b))

\* b with zeros in front, n bits in all
Pad(b, n) == [i \in 1..n |-> IF i <= n - Len(b) THEN 0 ELSE b[i - (n - Len(b))]]

\* b * 2^k
Shl(b, k) == IF b = <<>> THEN <<>> ELSE b \o [i \in 1..k |-> 0]

\* a < b
LessBits(a, b) ==
    \/ Len(a) < Len(b)
    \/ /\ Len(a) = Len(b)
       /\ \E i \in 1..Len(a) : a[i] < b[i] /\ \A j \in 1..(i - 1) : a[j] = b[j]

\* a + b: a carry enters bit i when a lower bit makes one and every bit
\* between hands it on
AddBits(a, b) ==
    LET n == (IF Len(a) > Len(b) THEN Len(a) ELSE Len(b)) + 1
        x == Pad(a, n)
        y == Pad(b, n)
        carry(i) == \E j \in (i + 1)..n :
                        /\ x[j] + y[j] = 2
                        /\ \A k \in (i + 1)..(j - 1) : x[k] + y[k] = 1
    IN  Trim([i \in 1..n |-> (x[i] + y[i] + (IF carry(i) THEN 1 ELSE 0)) % 2])

\* a - b, for a >= b: a borrow enters bit i when a lower bit takes one and
\* every bit between hands it on
SubBits(a, b) ==
    LET n == Len(a)
        y == Pad(b, n)
        borrow(i) == \E j \in (i + 1)..n :
                         /\ a[j] < y[j]
                         /\ \A k \in (i + 1)..(j - 1) : a[k] = y[k]
    IN  Trim([i \in 1..n |-> (a[i] - y[i] - (IF borrow(i) THEN 1 ELSE 0) + 2) % 2])

\* the sixteen bits a[i..i+15] as a number
WordAt(a, i) ==
    32768 * a[i] + 16384 * a[i + 1] + 8192 * a[i + 2] + 4096 * a[i + 3]
        + 2048 * a[i + 4] + 1024 * a[i + 5] + 512 * a[i + 6] + 256 * a[i + 7]
        + 128 * a[i + 8] + 64 * a[i + 9] + 32 * a[i + 10] + 16 * a[i + 11]
        + 8 * a[i + 12] + 4 * a[i + 13] + 2 * a[i + 14] + a[i + 15]

\* a with zeros in front, a whole number of words
Words(a) == Pad(a, 16 * ((Len(a) + 15) \div 16))

\* the number b < 2^30 stands for
NatOf(b) ==
    LET w == Pad(b, 32)
    IN  65536 * WordAt(w, 1) + WordAt(w, 17)

\* a * c for c < 2^15: every word of a times c, the low halves of the
\* products and the high halves, a word further up, added
MulBits(a, c) ==
    LET w == Words(a)
        product(i) == c * WordAt(w, 16 * ((i - 1) \div 16) + 1)
        bit(i) == 2 ^ (15 - ((i - 1) % 16))
        low == [i \in 1..Len(w) |-> ((product(i) % 65536) \div bit(i)) % 2]
        high == [i \in 1..Len(w) |-> ((product(i) \div 65536) \div bit(i)) % 2]
    IN  AddBits(Trim(low), Shl(Trim(high), 16))

\* long division of the words a by c < 2^15, a word at a time from bit i on:
\* quotient and remainder
RECURSIVE LongDiv(_, _, _, _, _)
LongDiv(a, c, i, r, q) ==
    IF i > Len(a) THEN [q |-> Trim(q), r |-> r]
    ELSE LET n == 65536 * r + WordAt(a, i)
         IN  IF n < c THEN LongDiv(a, c, i + 16, n, q \o Pad(<<>>, 16))
             ELSE LongDiv(a, c, i + 16, n % c, q \o Pad(Bits(n \div c), 16))

\* a divided by c < 2^15
DivBits(a, c) == LongDiv(Words(a), c, 1, 0, <<>>)

\* bits of the mantissa of an IEEE 754 double
Precision == 53

\* a double is [neg, m, e]: the number (-1)^neg * m * 2^e, m of at most 53
\* bits; the model meets neither subnormals nor infinities

\* round to nearest, ties to even: the double nearest to m * 2^e, where
\* sticky tells of a non-zero rest below the last bit of m
RoundBits(neg, m, sticky, e) ==
    IF Len(m) <= Precision THEN [neg |-> neg /\ m # <<>>, m |-> m, e |-> e]
    ELSE LET top == SubSeq(m, 1, Precision)
             guard == m[Precision + 1]
             rest == sticky \/ \E i \in (Precision + 2)..Len(m) : m[i] = 1
             up == guard = 1 /\ (rest \/ top[Precision] = 1)
             inc == IF up THEN AddBits(top, <<1>>) ELSE top
         IN  IF Len(inc) > Precision
             THEN [neg |-> neg, m |-> SubSeq(inc, 1, Precision),
                   e |-> e + Len(m) - Precision + 1]
             ELSE [neg |-> neg, m |-> inc, e |-> e + Len(m) - Precision]

\* the double of the whole number n
FloatOfNat(n) == [neg |-> FALSE, m |-> Bits(n), e |-> 0]

\* x / c for a whole number c > 0 that is a double itself: the quotient to
\* more bits than the mantissa holds, then rounded
FDiv(x, c) ==
    IF x.m = <<>> THEN x
    ELSE LET k == Precision + 2 + Len(Bits(c))
             d == DivBits(Shl(x.m, k), c)
         IN  RoundBits(x.neg, d.q, d.r # 0, x.e - k)

\* x * c for a whole number c that is a double itself
FMul(x, c) ==
    IF x.m = <<>> THEN x ELSE RoundBits(x.neg, MulBits(x.m, c), FALSE, x.e)

FNeg(x) == [neg |-> ~x.neg /\ x.m # <<>>, m |-> x.m, e |-> x.e]

\* x + y
FAdd(x, y) ==
    IF x.m = <<>> THEN y
    ELSE IF y.m = <<>> THEN x
    ELSE LET e == IF x.e < y.e THEN x.e ELSE y.e
             a == Shl(x.m, x.e - e)
             b == Shl(y.m, y.e - e)
         IN  IF x.neg = y.neg THEN RoundBits(x.neg, AddBits(a, b), FALSE, e)
             ELSE IF LessBits(a, b) THEN RoundBits(y.neg, SubBits(b, a), FALSE, e)
             ELSE RoundBits(x.neg, SubBits(a, b), FALSE, e)

FSub(x, y) == FAdd(x, FNeg(y))

\* numpy.rint of a double x >= 0: the nearest whole number, a tie going to
\* the even one
Rint(x) ==
    IF x.m = <<>> THEN 0
    ELSE IF x.e >= 0 THEN NatOf(Shl(x.m, x.e))
    ELSE LET n == Len(x.m)
             f == 0 - x.e
             whole == IF n > f THEN NatOf(SubSeq(x.m, 1, n - f)) ELSE 0
             guard == IF n >= f THEN x.m[n - f + 1] ELSE 0
             rest == \E i \in 1..n : i > n - f + 1 /\ x.m[i] = 1
         IN  IF n < f THEN 0
             ELSE IF guard = 1 /\ (rest \/ whole % 2 = 1) THEN whole + 1
             ELSE whole

\* the sum of a group in pandas' group_sum: Kahan summation, in the order of
\* the rows
RECURSIVE KahanFrom(_, _, _, _)
KahanFrom(vals, i, sumx, compensation) ==
    IF i > Len(vals) THEN sumx
    ELSE LET y == FSub(vals[i], compensation)
             t == FAdd(sumx, y)
         IN  KahanFrom(vals, i + 1, t, FSub(FSub(t, sumx), y))

KahanSum(vals) == KahanFrom(vals, 1, FloatOfNat(0), FloatOfNat(0))

\* the double a duration_minutes of d thousandths of a minute is held as
DurationFloat(d) == FDiv(FloatOfNat(d), 1000)

\* "sum" of line 263: the sum of the group as pandas computes it
GroupSum(rows) == KahanSum([i \in 1..Len(rows) |-> DurationFloat(rows[i].duration_minutes)])

\* round(2) of a column of doubles, numpy's rint(x * 100) / 100: the
\* hundredths counted
Round2(x) == Rint(FMul(x, 100))

\* n / d lies halfway between two whole numbers
OnTie(n, d) == 2 * (n % d) = d

\* the whole number nearest to n / d, which is not on a tie
Nearest(n, d) == (2 * n + d) \div (2 * d)

\* a slip: lines 267 and 268 swapped, the hours taken from the rounded
\* minutes
TotalHoursOfRounded(sum, x) ==
    LET minutes == IF OnTie(sum, 10) THEN Round2(x) ELSE Nearest(sum, 10)
        rounded == FDiv(FloatOfNat(minutes), 100)
    IN  IF OnTie(10 * minutes, 600) THEN Round2(FDiv(rounded, 60))
        ELSE Nearest(10 * minutes, 600)

\* line 267: (sum / 60.0).round(2), in hundredths of an hour, of a group whose
\* durations sum to sum thousandths of a minute exactly and to the double x.
\* Off a tie sum / 600 is at least 1 / 600 away from the halves, much further
\* than the doubles are from the exact values, and the nearest whole number
\* is taken at once; on a tie the error of the doubles decides.
TotalHours(sum, x) ==
    IF OnTie(sum, 600) THEN Round2(FDiv(x, 60)) ELSE Nearest(sum, 600)

\* line 268: sum.round(2), in hundredths of a minute
TotalMinutes(sum, x) ==
    IF OnTie(sum, 10) THEN Round2(x) ELSE Nearest(sum, 10)

\* lines 261-268: one row of the aggregate
MonthlyRow(df, k) ==
    LET rows == RowsOfKey(df, k)
        sum == SumDurations(rows)
        x == GroupSum(rows)
    IN  [plate |-> k.plate, month |-> k.month, visits |-> Len(rows),
         total_minutes |-> TotalMinutes(sum, x), total_hours |-> TotalHours(sum, x)]

\* lines 254-269
SummarizeMonthly(df) ==
    IF Empty(df) THEN [columns |-> MonthlyColumns, rows |-> <<>>]
    ELSE LET ks == SortedMonthKeys({MonthKey(df.rows[i]) : i \in 1..Len(df.rows)})
         IN  [columns |-> MonthlyColumns,
              rows |-> [i \in 1..Len(ks) |-> MonthlyRow(df, ks[i])]]

-----------------------------------------------------------------------------
(* Input batches *)

\* a mixed batch: up to MaxEvents rows of any plate and kind
Rows == [plate : Plates, event : Kinds, timestamp : Times]

MixedBatches == UNION {[1..n -> Rows] : n \in 0..MaxEvents}

\* a batch of one plate whose n rows carry the instants 1..n, in any order
TimeOrders(n) == {f \in [1..n -> 1..n] : \A i, j \in 1..n : f[i] = f[j] => i = j}

DistinctBatches ==
    UNION {{[i \in 1..n |-> [plate |-> PlateA, event |-> k[i], timestamp |-> f[i]]] :
               k \in [1..n -> {ENTRY, EXIT}], f \in TimeOrders(n)} :
           n \in 1..MaxDistinct}

\* a chronological log of one plate, long enough for sort_values to
\* partition, in which the two rows in the middle share an instant
TieLen == SmallQuicksort + 2

TieRow == TieLen \div 2

TieBatches ==
    {[i \in 1..TieLen |->
         [plate |-> PlateA,
          event |-> IF i = TieRow THEN k[1]
                    ELSE IF i = TieRow + 1 THEN k[2]
                    ELSE IF i % 2 = 1 THEN ENTRY ELSE EXIT,
          timestamp |-> IF i = TieRow + 1 THEN TieRow ELSE i]] :
     k \in [1..2 -> Kinds]}

Batches == MixedBatches \cup DistinctBatches \cup TieBatches

Init ==
    /\ events \in Batches
    /\ pc = "start"
    /\ keys = <<>>
    /\ plate = <<>>
    /\ group = <<>>
    /\ pos = 1
    /\ open_entry = None
    /\ intervals = <<>>
    /\ issues = <<>>
    /\ open_src = 0
    /\ interval_src = <<>>
    /\ issue_src = <<>>
    /\ intervals_df = NoFrame
    /\ monthly = NoFrame
    /\ argsort \in Argsorts(events)

-----------------------------------------------------------------------------
(* build_intervals, one action per step *)

\* lines 179-185: the empty frame returns at once; otherwise groupby
Enter ==
    /\ pc = "start"
    /\ IF events = <<>>
       THEN /\ pc' = "done"
            /\ keys' = keys
            /\ intervals_df' = [columns |-> IntervalColumns, rows |-> <<>>]
       ELSE /\ pc' = "groupby"
            /\ keys' = SortedKeys(GroupKeys(events))
            /\ intervals_df' = intervals_df
    /\ UNCHANGED <<monthly, events, argsort, plate, group, pos, open_entry, intervals, issues,
                   open_src, interval_src, issue_src>>

\* a slip: open_entry set once before the loop over the groups, so that a
\* walk inherits the slot of the walk before it
BeginGroupCarriesSlot ==
    /\ pc = "groupby"
    /\ keys # <<>>
    /\ plate' = Head(keys)
    /\ keys' = Tail(keys)
    /\ group' = argsort[Head(keys)]
    /\ pos' = 1
    /\ pc' = IF IsDigit(Head(keys)) THEN "hazard" ELSE "walk"
    /\ UNCHANGED <<intervals_df, monthly, events, argsort, open_entry, open_src, intervals, issues, interval_src,
                   issue_src>>

\* a slip: a sort that settles tied rows anew in every run (a random pivot)
BeginGroupSortsAnew ==
    /\ pc = "groupby"
    /\ keys # <<>>
    /\ plate' = Head(keys)
    /\ keys' = Tail(keys)
    /\ group' \in SortValues(events, GroupRows(events, Head(keys)))
    /\ pos' = 1
    /\ IF IsDigit(Head(keys))
       THEN pc' = "hazard" /\ UNCHANGED <<open_entry, open_src>>
       ELSE pc' = "walk" /\ open_entry' = None /\ open_src' = 0
    /\ UNCHANGED <<intervals_df, monthly, events, argsort, intervals, issues, interval_src, issue_src>>

\* lines 185-187 and 197: the next group, sorted; a walk starts with the slot
\* closed, a hazard plate does not touch it
BeginGroup ==
    /\ pc = "groupby"
    /\ keys # <<>>
    /\ plate' = Head(keys)
    /\ keys' = Tail(keys)
    /\ group' = argsort[Head(keys)]
    /\ pos' = 1
    /\ IF IsDigit(Head(keys))
       THEN pc' = "hazard" /\ UNCHANGED <<open_entry, open_src>>
       ELSE pc' = "walk" /\ open_entry' = None /\ open_src' = 0
    /\ UNCHANGED <<intervals_df, monthly, events, argsort, intervals, issues, interval_src, issue_src>>

\* a slip: every hazard issue stamped with the group's first timestamp
HazardRowFirstTime ==
    /\ pc = "hazard"
    /\ pos <= Len(group)
    /\ issues' = Append(issues, [plate |-> plate, issue |-> HAZARD_PLATE,
                                 timestamp |-> Isoformat(events[group[1]].timestamp)])
    /\ issue_src' = Append(issue_src, group[pos])
    /\ pos' = pos + 1
    /\ UNCHANGED <<intervals_df, monthly, events, argsort, pc, keys, plate, group, open_entry, intervals,
                   open_src, interval_src>>

\* lines 188-195: one issue per row of a hazard plate
HazardRow ==
    /\ pc = "hazard"
    /\ pos <= Len(group)
    /\ issues' = Append(issues, Issue(plate, HAZARD_PLATE, events[group[pos]].timestamp))
    /\ issue_src' = Append(issue_src, group[pos])
    /\ pos' = pos + 1
    /\ UNCHANGED <<intervals_df, monthly, events, argsort, pc, keys, plate, group, open_entry, intervals,
                   open_src, interval_src>>

\* a slip: return in the place of continue, the batch given up at the first
\* hazard plate
HazardDoneAborts ==
    /\ pc = "hazard"
    /\ pos > Len(group)
    /\ pc' = "done"
    /\ intervals_df' = DataFrame(intervals)
    /\ UNCHANGED <<monthly, events, argsort, keys, plate, group, pos, open_entry, intervals,
                   issues, open_src, interval_src, issue_src>>

\* line 196: continue
HazardDone ==
    /\ pc = "hazard"
    /\ pos > Len(group)
    /\ pc' = "groupby"
    /\ UNCHANGED <<intervals_df, monthly, events, argsort, keys, plate, group, pos, open_entry, intervals, issues,
                   open_src, interval_src, issue_src>>

\* lines 198-240: one row of the walk
WalkRow ==
    /\ pc = "walk"
    /\ pos <= Len(group)
    /\ SetWalkState(WalkStep(events, plate, WalkState, group[pos]))
    /\ pos' = pos + 1
    /\ UNCHANGED <<intervals_df, monthly, events, argsort, pc, keys, plate, group>>

\* lines 241-248: end of the group's walk
EndGroup ==
    /\ pc = "walk"
    /\ pos > Len(group)
    /\ SetWalkState(CloseGroup(plate, WalkState))
    /\ pc' = "groupby"
    /\ UNCHANGED <<intervals_df, monthly, events, argsort, keys, plate, group, pos>>

\* lines 250-251: return
Return ==
    /\ pc = "groupby"
    /\ keys = <<>>
    /\ pc' = "done"
    /\ intervals_df' = DataFrame(intervals)
    /\ UNCHANGED <<monthly, events, argsort, keys, plate, group, pos, open_entry, intervals,
                   issues, open_src, interval_src, issue_src>>

\* line 329 of main: summarize_monthly on the frame build_intervals returned
Summarize ==
    /\ pc = "done"
    /\ monthly' = SummarizeMonthly(intervals_df)
    /\ pc' = "summarized"
    /\ UNCHANGED <<events, argsort, keys, plate, group, pos, open_entry, intervals, issues,
                   open_src, interval_src, issue_src, intervals_df>>

Next ==
    \/ Enter
    \/ BeginGroup
    \/ HazardRow
    \/ HazardDone
    \/ WalkRow
    \/ EndGroup
    \/ Return
    \/ Summarize

Spec == Init /\ [][Next]_vars

-----------------------------------------------------------------------------
(* load_events, lines 152-171, and the check of main, lines 323-326 *)

\* a cell of the plate column: missing, or a text
NaN == [na |-> TRUE, text |-> <<>>]

Text(chars) == [na |-> FALSE, text |-> chars]

\* str.upper, on the characters the cells of the model are written with
UpperChar(c) ==
    CASE c = "a" -> "A" [] c = "b" -> "B" [] c = "c" -> "C" [] c = "n" -> "N"
      [] OTHER -> c

Upper(s) == [i \in 1..Len(s) |-> UpperChar(s[i])]

\* str.strip: the blanks at either end removed
RECURSIVE LStrip(_)
LStrip(s) == IF s # <<>> /\ s[1] = " " THEN LStrip(Tail(s)) ELSE s

RECURSIVE RStrip(_)
RStrip(s) ==
    IF s # <<>> /\ s[Len(s)] = " " THEN RStrip(SubSeq(s, 1, Len(s) - 1)) ELSE s

Strip(s) == RStrip(LStrip(s))

\* line 169 on the texts of the event column the model writes; "nan" is what
\* astype(str) makes of a missing cell
NormalEvent(text) ==
    CASE text = " 01 entry" -> "01 ENTRY"
      [] text = "02 Exit " -> "02 EXIT"
      [] text = "03 other" -> "03 OTHER"
      [] text = "nan" -> "NAN"

\* lines 162-166, to_datetime(errors="coerce"): the instant of a cell that
\* parses, NaT for any other
NaT == <<>>

ToDatetime(cell) == IF cell.parses THEN <<cell.instant>> ELSE NaT

\* line 153: dropna(subset=[plate])
DropMissingPlate(raw) == SelectSeq(raw, LAMBDA row : ~row.plate.na)

\* lines 162-167: the timestamps parsed, the rows with NaT dropped
ParseTimestamps(raw) ==
    SelectSeq([i \in 1..Len(raw) |->
                  [plate |-> raw[i].plate, event |-> raw[i].event,
                   timestamp |-> ToDatetime(raw[i].timestamp)]],
              LAMBDA row : row.timestamp # NaT)

\* lines 168-169: both text columns stripped and upper-cased
NormalizeTexts(rows) ==
    [i \in 1..Len(rows) |->
        [plate |-> Upper(Strip(rows[i].plate.text)),
         event |-> NormalEvent(rows[i].event),
         timestamp |-> rows[i].timestamp[1]]]

\* lines 152-171; line 170 keeps the rows whose plate is neither "" nor
\* "NAN"; no line reads the markers or compares the event column
LoadEvents(raw) ==
    SelectSeq(NormalizeTexts(ParseTimestamps(DropMissingPlate(raw))),
              LAMBDA row : row.plate # <<>> /\ row.plate # <<"N", "A", "N">>)

RawPlates ==
    {NaN, Text(<<" ">>), Text(<<"n", "a", "n">>), Text(<<" ", "a", "7">>),
     Text(<<"4", "2", " ">>)}

RawEvents == {" 01 entry", "02 Exit ", "03 other", "nan"}

RawTimestamps == {[parses |-> TRUE, instant |-> 1], [parses |-> FALSE, instant |-> 0]}

RawRows == [plate : RawPlates, event : RawEvents, timestamp : RawTimestamps]

\* the sheets of n rows
RawFrames(n) == [1..n -> RawRows]

\* before load_events: `events` holds the rows of the sheets as read
InitLoad ==
    /\ \E n \in 0..MaxRaw : events \in RawFrames(n)
    /\ pc = "load"
    /\ keys = <<>>
    /\ plate = <<>>
    /\ group = <<>>
    /\ pos = 1
    /\ open_entry = None
    /\ intervals = <<>>
    /\ issues = <<>>
    /\ open_src = 0
    /\ interval_src = <<>>
    /\ issue_src = <<>>
    /\ intervals_df = NoFrame
    /\ monthly = NoFrame
    /\ argsort = <<>>

\* lines 323-328 of main: load_events, exit(1) on an empty frame, otherwise
\* the frame handed to build_intervals
Load ==
    /\ pc = "load"
    /\ events' = LoadEvents(events)
    /\ pc' = IF events' = <<>> THEN "exit" ELSE "start"
    /\ argsort' \in Argsorts(events')
    /\ UNCHANGED <<keys, plate, group, pos, open_entry, intervals, issues, open_src,
                   interval_src, issue_src, intervals_df, monthly>>

NextLoad == Load

SpecLoad == InitLoad /\ [][NextLoad]_vars

-----------------------------------------------------------------------------
(* summarize_monthly on its own: any frame of intervals *)

\* durations in thousandths of a minute: 0.448, 30 and 60 minutes
FrameDurations == {448, 30000, 60000}

FrameRows ==
    {row \in [plate : {PlateA, PlateB}, entry_time : Times, exit_time : Times,
              duration_minutes : FrameDurations] : row.entry_time <= row.exit_time}

\* the rows of the frames of n intervals
Frames(n) == [1..n -> FrameRows]

\* durations whose sums lie on ties of the hundredths: 0.1, 0.2, 0.3, 2.7,
\* 8.1 and 11.7 minutes on ties of the hours, 0.545, 0.575 and 1.015 minutes
\* on ties of the minutes
TieDurations == {100, 200, 300, 545, 575, 1015, 2700, 8100, 11700}

TieRows ==
    [plate : {PlateA}, entry_time : {1}, exit_time : {1}, duration_minutes : TieDurations]

\* the rows of the frames of n intervals of one group, on and about the ties
TieFrames(n) == [1..n -> TieRows]

InitMonthly ==
    /\ \E n \in 0..MaxIntervals : \E rows \in Frames(n) \cup TieFrames(n) :
          intervals_df = [columns |-> IntervalColumns, rows |-> rows]
    /\ pc = "done"
    /\ events = <<>>
    /\ keys = <<>>
    /\ plate = <<>>
    /\ group = <<>>
    /\ pos = 1
    /\ open_entry = None
    /\ intervals = <<>>
    /\ issues = <<>>
    /\ open_src = 0
    /\ interval_src = <<>>
    /\ issue_src = <<>>
    /\ monthly = NoFrame
    /\ argsort = <<>>

NextMonthly == Summarize

SpecMonthly == InitMonthly /\ [][NextMonthly]_vars

-----------------------------------------------------------------------------
(* Vocabulary of the properties *)

Done == pc = "done"

Summarized == pc = "summarized"

RowsOf(p) == {r \in 1..Len(events) : events[r].plate = p}

IsPlate(p, x) == x.plate = p

IntervalsOf(p) == SelectSeq(intervals, LAMBDA iv : IsPlate(p, iv))

IssuesOf(p) == SelectSeq(issues, LAMBDA a : IsPlate(p, a))

\* how many intervals row r is the entry or the exit of
IntervalsFrom(r) ==
    Cardinality({i \in 1..Len(interval_src) : r \in {interval_src[i][1], interval_src[i][2]}})

\* how many issues report row r
IssuesFrom(r) == Cardinality({i \in 1..Len(issue_src) : issue_src[i] = r})

\* the row iterrows yields next, in a walk
Walking == pc = "walk" /\ pos <= Len(group)

Row == events[group[pos]]

\* the rows of plate p with distinct timestamps: rank k is the k-th earliest
Rank(p, r) == Cardinality({o \in RowsOf(p) : events[o].timestamp < events[r].timestamp}) + 1

AtRank(p, k) == CHOOSE r \in RowsOf(p) : Rank(p, r) = k

\* the rows of p are ENTRY, EXIT, ENTRY, EXIT, ... at strictly increasing
\* instants once put in order of time
Alternating(p) ==
    /\ RowsOf(p) # {}
    /\ Cardinality(RowsOf(p)) % 2 = 0
    /\ \A r, o \in RowsOf(p) : r # o => events[r].timestamp # events[o].timestamp
    /\ \A r \in RowsOf(p) :
          events[r].event = IF Rank(p, r) % 2 = 1 THEN ENTRY ELSE EXIT

-----------------------------------------------------------------------------
(* C1 *)

\* C1: when build_intervals has returned, every row of the batch is either
\* the entry or the exit of exactly one interval and reported by no issue, or
\* reported by exactly one issue and part of no interval.
C1_EveryEventAccountedOnce ==
    Done => \A r \in 1..Len(events) :
               \/ IntervalsFrom(r) = 1 /\ IssuesFrom(r) = 0
               \/ IntervalsFrom(r) = 0 /\ IssuesFrom(r) = 1

\* What the walk does guarantee: the same accounting for every row of a
\* hazard plate and every ENTRY or EXIT row; a row of another kind on an
\* ordinary plate leaves no trace at all.
AccountedUnlessUnknown ==
    Done => \A r \in 1..Len(events) :
               IF IsDigit(events[r].plate) \/ events[r].event \in {ENTRY, EXIT}
               THEN \/ IntervalsFrom(r) = 1 /\ IssuesFrom(r) = 0
                    \/ IntervalsFrom(r) = 0 /\ IssuesFrom(r) = 1
               ELSE IntervalsFrom(r) = 0 /\ IssuesFrom(r) = 0

-----------------------------------------------------------------------------
(* C2 *)

\* C2: a plate that is no hazard plate and whose rows alternate ENTRY, EXIT
\* at strictly increasing instants, N pairs in all, yields exactly N
\* intervals, the k-th from the k-th ENTRY to the k-th EXIT, and no issue, in
\* whatever order the rows stand in the batch.
C2_AlternatingPairsAll ==
    Done => \A p \in GroupKeys(events) :
               (~IsDigit(p) /\ Alternating(p)) =>
                   /\ IssuesOf(p) = <<>>
                   /\ IntervalsOf(p) =
                        [k \in 1..(Cardinality(RowsOf(p)) \div 2) |->
                            Interval(p, events[AtRank(p, 2 * k - 1)].timestamp,
                                        events[AtRank(p, 2 * k)].timestamp)]

\* two pairs of one plate, standing in the batch out of chronological order
C2_Witness ==
    /\ Done
    /\ Alternating(PlateA)
    /\ Cardinality(RowsOf(PlateA)) = 4
    /\ events[1].plate = PlateA
    /\ Rank(PlateA, 1) = 4
    /\ Len(IntervalsOf(PlateA)) = 2

-----------------------------------------------------------------------------
(* C3 *)

\* the step of C3: an ENTRY walked while an ENTRY is open appends exactly one
\* issue, CONSECUTIVE_ENTRY at the time of the ENTRY that was open, adds no
\* interval, and leaves the new ENTRY's time in the slot
ConsecutiveEntryStep ==
    (Walking /\ Row.event = ENTRY /\ open_entry # None) =>
        /\ issues' = Append(issues, Issue(plate, CONSECUTIVE_ENTRY, open_entry[1]))
        /\ intervals' = intervals
        /\ open_entry' = Some(Row.timestamp)

\* the ENTRY a CONSECUTIVE_ENTRY issue reports is the entry of no interval
SupersededNeverPaired ==
    \A i \in 1..Len(issues) :
        issues[i].issue = CONSECUTIVE_ENTRY =>
            /\ events[issue_src[i]].event = ENTRY
            /\ \A j \in 1..Len(interval_src) : interval_src[j][1] # issue_src[i]

\* rows a, b, c are all the rows of p: ENTRY@t1, ENTRY@t2, EXIT@t3, t1 < t2 < t3
EntryEntryExitCase(p, a, b, c) ==
    /\ RowsOf(p) = {a, b, c}
    /\ events[a].event = ENTRY /\ events[b].event = ENTRY /\ events[c].event = EXIT
    /\ events[a].timestamp < events[b].timestamp
    /\ events[b].timestamp < events[c].timestamp

EntryEntryExit(p) ==
    \A a, b, c \in RowsOf(p) :
        EntryEntryExitCase(p, a, b, c) =>
            /\ IssuesOf(p) = <<Issue(p, CONSECUTIVE_ENTRY, events[a].timestamp)>>
            /\ IntervalsOf(p) = <<Interval(p, events[b].timestamp, events[c].timestamp)>>

\* C3: an ENTRY walked while the slot is open yields exactly one
\* CONSECUTIVE_ENTRY issue at the time of the ENTRY that was open and leaves
\* the new ENTRY in the slot; ENTRY@t1, ENTRY@t2, EXIT@t3 yields that issue at
\* t1 and the interval (t2, t3); the superseded ENTRY is never paired.
C3_ConsecutiveEntry ==
    /\ [][ConsecutiveEntryStep]_vars
    /\ [](SupersededNeverPaired)
    /\ [](Done => \A p \in GroupKeys(events) : ~IsDigit(p) => EntryEntryExit(p))

\* the three rows, given in the batch as EXIT, ENTRY@t2, ENTRY@t1, are done
C3_Witness ==
    /\ Done
    /\ EntryEntryExitCase(PlateA, 3, 2, 1)
    /\ Len(IssuesOf(PlateA)) = 1
    /\ Len(IntervalsOf(PlateA)) = 1

-----------------------------------------------------------------------------
(* C4 *)

\* the step of C4
ExitWithoutEntryStep ==
    (Walking /\ Row.event = EXIT /\ open_entry = None) =>
        /\ issues' = Append(issues, Issue(plate, EXIT_WITHOUT_ENTRY, Row.timestamp))
        /\ intervals' = intervals
        /\ open_entry' = None

\* C4: an EXIT walked while the slot is closed yields exactly one
\* EXIT_WITHOUT_ENTRY issue at the EXIT's own time, no interval, and leaves
\* the slot closed.
C4_ExitWithoutEntry == [][ExitWithoutEntryStep]_vars

\* an EXIT with no ENTRY before it has been walked and reported
C4_Witness ==
    /\ pc = "walk"
    /\ pos = 2
    /\ events[group[1]].event = EXIT
    /\ issues # <<>>
    /\ issues[Len(issues)] = Issue(plate, EXIT_WITHOUT_ENTRY, events[group[1]].timestamp)
    /\ open_entry = None

-----------------------------------------------------------------------------
(* C5 *)

\* the ENTRY and EXIT rows of the group just walked, in the order walked
MarkerRows == SelectSeq(group, LAMBDA r : events[r].event \in {ENTRY, EXIT})

EntryWithoutExitOf(p) == SelectSeq(issues, LAMBDA a : IsPlate(p, a) /\ a.issue = ENTRY_WITHOUT_EXIT)

\* a walk has just ended: the group is still the one walked
WalkEnded == pc = "groupby" /\ plate # <<>> /\ ~IsDigit(plate)

\* C5: for a plate that is no hazard plate, an ENTRY_WITHOUT_EXIT issue is
\* emitted exactly when the last ENTRY or EXIT row walked is an ENTRY: then
\* exactly one, at that ENTRY's time; otherwise none.  That is when the slot
\* is still open at the end of the walk; none is emitted while the walk is
\* still going on.
C5_EntryWithoutExit ==
    /\ WalkEnded =>
          EntryWithoutExitOf(plate) =
              IF MarkerRows # <<>> /\ events[MarkerRows[Len(MarkerRows)]].event = ENTRY
              THEN <<Issue(plate, ENTRY_WITHOUT_EXIT,
                           events[MarkerRows[Len(MarkerRows)]].timestamp)>>
              ELSE <<>>
    /\ WalkEnded => (EntryWithoutExitOf(plate) # <<>> <=> open_entry # None)
    /\ pc = "walk" => EntryWithoutExitOf(plate) = <<>>
    /\ Done => \A p \in GroupKeys(events) : Len(EntryWithoutExitOf(p)) <= 1

\* a walk that ended on an open ENTRY followed by a row of another kind
C5_Witness ==
    /\ WalkEnded
    /\ Len(group) >= 2
    /\ events[group[Len(group)]].event = UNKNOWN
    /\ Len(EntryWithoutExitOf(plate)) = 1

-----------------------------------------------------------------------------
(* C6 *)

\* C6: for a plate made of digits only, every row yields exactly one
\* HAZARD_PLATE issue carrying the row's own timestamp, and the plate yields
\* no interval and no issue of another kind, whatever the rows' kinds and
\* order.
C6_HazardPlate ==
    Done => \A p \in GroupKeys(events) :
               IsDigit(p) =>
                   /\ IntervalsOf(p) = <<>>
                   /\ Len(IssuesOf(p)) = Cardinality(RowsOf(p))
                   /\ \A i \in 1..Len(issues) :
                         issues[i].plate = p =>
                             /\ issues[i].issue = HAZARD_PLATE
                             /\ issue_src[i] \in RowsOf(p)
                             /\ issues[i].timestamp = Isoformat(events[issue_src[i]].timestamp)
                   /\ \A r \in RowsOf(p) : IssuesFrom(r) = 1

\* a hazard plate with an ENTRY and a later EXIT, given EXIT first
C6_Witness ==
    /\ Done
    /\ Len(events) >= 2
    /\ events[1] = [plate |-> HazardPlate, event |-> EXIT, timestamp |-> 2]
    /\ events[2] = [plate |-> HazardPlate, event |-> ENTRY, timestamp |-> 1]
    /\ Len(IssuesOf(HazardPlate)) >= 2

-----------------------------------------------------------------------------
(* C7 *)

\* the rows of the walk are in ascending order of time
WalkAscending ==
    pc = "walk" => \A i, j \in 1..Len(group) :
                      i < j => events[group[i]].timestamp <= events[group[j]].timestamp

\* C7: the rows of a plate that is no hazard plate are walked in ascending
\* order of time, and rows with equal timestamps in the order they have in
\* the batch.
C7_StableWalkOrder ==
    pc = "walk" => \A i, j \in 1..Len(group) :
                      i < j =>
                          \/ events[group[i]].timestamp < events[group[j]].timestamp
                          \/ /\ events[group[i]].timestamp = events[group[j]].timestamp
                             /\ group[i] < group[j]

\* What sort_values does guarantee: ascending order always, and the batch
\* order among tied rows for a group short enough to be insertion-sorted.
StableWhenShort ==
    /\ WalkAscending
    /\ (pc = "walk" /\ Len(group) <= SmallQuicksort + 1) => C7_StableWalkOrder

\* the two cases the claim names, for a plate with just two rows at one instant
TiedPairCases ==
    Done => \A p \in GroupKeys(events) :
               (~IsDigit(p) /\ Cardinality(RowsOf(p)) = 2) =>
                   \A a, b \in RowsOf(p) :
                       (a < b /\ events[a].timestamp = events[b].timestamp) =>
                           /\ (events[a].event = EXIT /\ events[b].event = ENTRY) =>
                                 /\ IntervalsOf(p) = <<>>
                                 /\ IssuesOf(p) =
                                      <<Issue(p, EXIT_WITHOUT_ENTRY, events[a].timestamp),
                                        Issue(p, ENTRY_WITHOUT_EXIT, events[b].timestamp)>>
                           /\ (events[a].event = ENTRY /\ events[b].event = EXIT) =>
                                 /\ IssuesOf(p) = <<>>
                                 /\ IntervalsOf(p) =
                                      <<Interval(p, events[a].timestamp, events[b].timestamp)>>

-----------------------------------------------------------------------------
(* C8 *)

\* the rows an interval was made from: an ENTRY and an EXIT of its plate,
\* whose timestamps it carries, the EXIT not before the ENTRY
IntervalFromPair(i) ==
    LET e == interval_src[i][1]
        x == interval_src[i][2]
    IN  /\ e \in 1..Len(events) /\ x \in 1..Len(events)
        /\ events[e].event = ENTRY /\ events[x].event = EXIT
        /\ events[e].plate = intervals[i].plate
        /\ events[x].plate = intervals[i].plate
        /\ intervals[i].entry_time = events[e].timestamp
        /\ intervals[i].exit_time = events[x].timestamp
        /\ intervals[i].exit_time >= intervals[i].entry_time
        /\ intervals[i].duration_minutes >= 0

\* C8 as claimed: every interval is made from an ENTRY and an EXIT of its
\* plate, has exit_time >= entry_time, and duration_minutes >= 0 equal to
\* exit_time - entry_time in minutes (duration_minutes counts hundredths of a
\* minute, the timestamps seconds).
C8_DurationExact ==
    /\ Len(interval_src) = Len(intervals)
    /\ \A i \in 1..Len(intervals) :
          /\ IntervalFromPair(i)
          /\ 60 * intervals[i].duration_minutes =
                100 * (intervals[i].exit_time - intervals[i].entry_time)

\* C8 as amended: the same, with duration_minutes equal to exit_time -
\* entry_time in minutes rounded to two decimal places, that is, within half
\* a hundredth of a minute of it.
C8_DurationRounded ==
    /\ Len(interval_src) = Len(intervals)
    /\ \A i \in 1..Len(intervals) :
          /\ IntervalFromPair(i)
          /\ 60 * intervals[i].duration_minutes
                - 100 * (intervals[i].exit_time - intervals[i].entry_time) \in -30..30

\* a stay of one second has been recorded as 0.02 minutes
C8_Witness ==
    /\ Done
    /\ \E i \in 1..Len(intervals) :
          /\ intervals[i].exit_time - intervals[i].entry_time = 1
          /\ intervals[i].duration_minutes = 2

-----------------------------------------------------------------------------
(* C9 *)

\* C9: no row is the entry of two intervals, and none the exit of two.
C9_NoRowInTwoIntervals ==
    \A i, j \in 1..Len(interval_src) :
        i # j => /\ interval_src[i][1] # interval_src[j][1]
                 /\ interval_src[i][2] # interval_src[j][2]

\* ENTRY, EXIT, EXIT of one plate: the second EXIT found the slot cleared
C9_Witness ==
    /\ Done
    /\ Len(events) = 3
    /\ \A r \in 1..3 : events[r].plate = PlateA
    /\ events[1].event = ENTRY /\ events[2].event = EXIT /\ events[3].event = EXIT
    /\ events[1].timestamp < events[2].timestamp
    /\ events[2].timestamp < events[3].timestamp
    /\ interval_src = <<<<1, 2>>>>
    /\ issue_src = <<3>>

-----------------------------------------------------------------------------
(* C10 *)

EmptyWalk ==
    [open_entry |-> None, intervals |-> <<>>, issues |-> <<>>,
     open_src |-> 0, interval_src |-> <<>>, issue_src |-> <<>>]

RECURSIVE WalkFrom(_, _, _, _, _)
WalkFrom(ev, p, w, g, i) ==
    IF i > Len(g) THEN w ELSE WalkFrom(ev, p, WalkStep(ev, p, w, g[i]), g, i + 1)

\* lines 186-248 for one group on its own: what the rows g of plate p, in
\* the order walked, yield from a closed slot and empty lists
PlateAlone(ev, p, g) ==
    IF IsDigit(p)
    THEN [intervals |-> <<>>,
          issues |-> [i \in 1..Len(g) |-> Issue(p, HAZARD_PLATE, ev[g[i]].timestamp)]]
    ELSE LET w == CloseGroup(p, WalkFrom(ev, p, EmptyWalk, g, 1))
         IN  [intervals |-> w.intervals, issues |-> w.issues]

\* C10: the intervals and issues of a plate are those its own rows yield on
\* their own, in their order in the batch: no row of another plate, hazard
\* or left open, has a part in them; every walk starts with the slot closed.
C10_PlateIsolation ==
    /\ (pc = "walk" /\ pos = 1) => open_entry = None
    /\ Done => \A p \in GroupKeys(events) :
                  \E g \in SortValues(events, GroupRows(events, p)) :
                      /\ IntervalsOf(p) = PlateAlone(events, p, g).intervals
                      /\ IssuesOf(p) = PlateAlone(events, p, g).issues

\* three plates in one batch: a hazard row, a plate left with an open ENTRY,
\* and the plate walked after it, whose own ENTRY is the only one reported
C10_Witness ==
    /\ Done
    /\ Len(events) = 3
    /\ events[1].plate = PlateB /\ events[1].event = ENTRY
    /\ events[2].plate = PlateA /\ events[2].event = ENTRY
    /\ events[3].plate = HazardPlate
    /\ Len(EntryWithoutExitOf(PlateA)) = 1
    /\ IssuesOf(PlateB) = <<Issue(PlateB, ENTRY_WITHOUT_EXIT, events[1].timestamp)>>
    /\ Len(IssuesOf(HazardPlate)) = 1

-----------------------------------------------------------------------------
(* C11 *)

\* what build_intervals returns when each key's rows are walked in the
\* order `order` gives them: the groups' results, in the order of the keys
RECURSIVE ResultOf(_, _, _)
ResultOf(ev, ks, order) ==
    IF ks = <<>> THEN [intervals |-> <<>>, issues |-> <<>>]
    ELSE LET one == PlateAlone(ev, Head(ks), order[Head(ks)])
             rest == ResultOf(ev, Tail(ks), order)
         IN  [intervals |-> one.intervals \o rest.intervals,
              issues |-> one.issues \o rest.issues]

DeterminedByBatch ==
    (\A p \in GroupKeys(events) : Len(GroupRows(events, p)) <= SmallQuicksort + 1)
        => Cardinality(Argsorts(events)) = 1

-----------------------------------------------------------------------------
(* C12 *)

RECURSIVE SumSeq(_)
SumSeq(q) == IF q = <<>> THEN 0 ELSE q[1] + SumSeq(Tail(q))

\* the calendar month of the entry of row j of the intervals frame
EntryMonth(j) == MonthOf(intervals_df.rows[j].entry_time)

\* the rows of the intervals frame that row i of the monthly frame stands for
VisitsOf(i) ==
    {j \in 1..Len(intervals_df.rows) :
        /\ intervals_df.rows[j].plate = monthly.rows[i].plate
        /\ EntryMonth(j) = monthly.rows[i].month}

\* the sum of their duration_minutes, in thousandths of a minute
MinutesOf(i) ==
    SumSeq([j \in 1..Len(intervals_df.rows) |->
               IF j \in VisitsOf(i) THEN intervals_df.rows[j].duration_minutes ELSE 0])

\* one row per (plate, month of entry) that has an interval, its visits the
\* number of the intervals of the group, all visits the number of intervals
OneRowPerPlateMonth ==
    /\ \A i, j \in 1..Len(monthly.rows) :
          (/\ monthly.rows[i].plate = monthly.rows[j].plate
           /\ monthly.rows[i].month = monthly.rows[j].month) => i = j
    /\ \A j \in 1..Len(intervals_df.rows) : \E i \in 1..Len(monthly.rows) : j \in VisitsOf(i)
    /\ \A i \in 1..Len(monthly.rows) :
          /\ VisitsOf(i) # {}
          /\ monthly.rows[i].visits = Cardinality(VisitsOf(i))
    /\ SumSeq([i \in 1..Len(monthly.rows) |-> monthly.rows[i].visits]) =
          Len(intervals_df.rows)

\* C12: one row per (plate, month of entry_time) with an interval, visits
\* the number of intervals of the group, total_minutes the sum of their
\* duration_minutes, and the visits of all rows summing to the number of
\* intervals (total_minutes counts hundredths, the sum thousandths).  The
\* durations build_intervals hands on are whole hundredths, and rounding
\* their sum to two decimals (line 268) gives the sum itself.
C12_TotalMinutesExact ==
    Summarized =>
        /\ OneRowPerPlateMonth
        /\ \A i \in 1..Len(monthly.rows) : 10 * monthly.rows[i].total_minutes = MinutesOf(i)

\* a stay entered in the last second of January and left in February, and a
\* month with two stays or more of one plate: the first is counted in
\* January, the others add up
C12_Witness ==
    /\ Summarized
    /\ \E j \in 1..Len(intervals_df.rows) :
          /\ MonthOf(intervals_df.rows[j].entry_time) # MonthOf(intervals_df.rows[j].exit_time)
          /\ \E i \in 1..Len(monthly.rows) :
                j \in VisitsOf(i) /\ monthly.rows[i].month = MonthOf(1)
    /\ \E i \in 1..Len(monthly.rows) :
          /\ monthly.rows[i].visits >= 2
          /\ MinutesOf(i) > 0
          /\ 10 * monthly.rows[i].total_minutes = MinutesOf(i)

\* What holds of summarize_monthly on any frame, durations of three decimals
\* included (SpecMonthly): the same, with total_minutes within half a
\* hundredth of the sum.
TotalMinutesRounded ==
    Summarized =>
        /\ OneRowPerPlateMonth
        /\ \A i \in 1..Len(monthly.rows) :
              10 * monthly.rows[i].total_minutes - MinutesOf(i) \in -5..5

-----------------------------------------------------------------------------
(* C13 *)

Returned == pc \in {"done", "summarized"}

\* C13: an empty intervals frame returned by build_intervals, for a batch
\* without events and for a batch that yields no interval, has the columns
\* plate, entry_time, exit_time, duration_minutes; summarize_monthly on an
\* empty intervals frame returns an empty frame with the columns plate,
\* month, visits, total_minutes, total_hours.
C13_EmptyShapes ==
    /\ (Returned /\ Empty(intervals_df)) => intervals_df.columns = IntervalColumns
    /\ (Summarized /\ Empty(intervals_df)) =>
          monthly = [columns |-> MonthlyColumns, rows |-> <<>>]

\* What does hold: the shape for a batch without events, no column at all
\* for a batch with events and no interval, and the shape of the monthly
\* frame in either case.
EmptyShapesByCase ==
    /\ (Returned /\ events = <<>>) =>
          intervals_df = [columns |-> IntervalColumns, rows |-> <<>>]
    /\ (Returned /\ events # <<>> /\ intervals = <<>>) =>
          intervals_df = [columns |-> <<>>, rows |-> <<>>]
    /\ (Returned /\ intervals # <<>>) =>
          intervals_df.columns = IntervalColumns /\ Len(intervals_df.rows) = Len(intervals)
    /\ (Summarized /\ Empty(intervals_df)) =>
          monthly = [columns |-> MonthlyColumns, rows |-> <<>>]

-----------------------------------------------------------------------------
(* C14 *)

\* the rows of the groups groupby has still to yield
RowsAhead == {r \in 1..Len(events) : \E i \in 1..Len(keys) : keys[i] = events[r].plate}

\* the steps main has still to take through build_intervals and
\* summarize_monthly: one per row, two per group, one each to enter, to
\* return and to summarize
Measure ==
    CASE pc = "start" -> 3 + Len(events) + 2 * Cardinality(GroupKeys(events))
      [] pc = "groupby" -> 2 + Cardinality(RowsAhead) + 2 * Len(keys)
      [] pc \in {"walk", "hazard"} ->
            3 + (Len(group) + 1 - pos) + Cardinality(RowsAhead) + 2 * Len(keys)
      [] pc = "done" -> 1
      [] pc = "summarized" -> 0

\* every ENTRY or EXIT row, and every row of a hazard plate, has left an
\* interval or an issue behind
EveryRowWalked ==
    \A r \in 1..Len(events) :
        (events[r].event \in {ENTRY, EXIT} \/ IsDigit(events[r].plate)) =>
            IntervalsFrom(r) + IssuesFrom(r) >= 1

\* a plate whose rows are EXIT@t1, ENTRY@t2, EXIT@t3 with t1 < t2 < t3
ExitEntryExit(p, a, b, c) ==
    /\ RowsOf(p) = {a, b, c}
    /\ events[a].event = EXIT /\ events[b].event = ENTRY /\ events[c].event = EXIT
    /\ events[a].timestamp < events[b].timestamp
    /\ events[b].timestamp < events[c].timestamp

AfterAnIssue ==
    \A p \in GroupKeys(events) : \A a, b, c \in RowsOf(p) :
        (~IsDigit(p) /\ ExitEntryExit(p, a, b, c)) =>
            /\ IssuesOf(p) = <<Issue(p, EXIT_WITHOUT_ENTRY, events[a].timestamp)>>
            /\ IntervalsOf(p) = <<Interval(p, events[b].timestamp, events[c].timestamp)>>

\* the guards of the actions, position by position: the next group needs an
\* order from sort_values, a row or the end of the group needs pos within
\* the group or one past it, every other step is unconditional
StepPossible ==
    \/ pc = "start"
    \/ /\ pc = "groupby"
       /\ keys # <<>> => SortValues(events, GroupRows(events, Head(keys))) # {}
    \/ pc \in {"hazard", "walk"} /\ pos \in 1..(Len(group) + 1)
    \/ pc = "done"

\* these guards are those of Next
StepPossibleIsEnabled == StepPossible <=> ENABLED Next

\* C14: no issue ends the run.  Until the monthly frame is there a step is
\* always possible, and every step brings the end nearer, so that the run
\* terminates; at the return every ENTRY/EXIT row and every hazard row of
\* every plate has been walked, whatever issues the rows before it raised;
\* EXIT@t1, ENTRY@t2, EXIT@t3 gives EXIT_WITHOUT_ENTRY@t1 and the interval
\* (t2, t3).
C14_NeverAborts ==
    /\ [](Summarized \/ StepPossible)
    /\ [](Measure \in Nat)
    /\ [][Measure' < Measure]_vars
    /\ [](Done => EveryRowWalked /\ AfterAnIssue)

\* EXIT@1, ENTRY@2, EXIT@3 of one plate: the issue for the first row, then
\* the interval of the two rows after it
C14_Witness ==
    /\ Done
    /\ ExitEntryExit(PlateA, 1, 2, 3)
    /\ issues = <<Issue(PlateA, EXIT_WITHOUT_ENTRY, events[1].timestamp)>>
    /\ interval_src = <<<<2, 3>>>>

-----------------------------------------------------------------------------
(* C15 *)

IssueKinds ==
    {HAZARD_PLATE, CONSECUTIVE_ENTRY, EXIT_WITHOUT_ENTRY, EXIT_BEFORE_ENTRY, ENTRY_WITHOUT_EXIT}

\* C15: every issue is of one of the five kinds, and its plate and its
\* timestamp are those of one row of the batch (the row it reports).
C15_IssuesFromEvents ==
    /\ Len(issue_src) = Len(issues)
    /\ \A i \in 1..Len(issues) :
          /\ issues[i].issue \in IssueKinds
          /\ issue_src[i] \in 1..Len(events)
          /\ issues[i].plate = events[issue_src[i]].plate
          /\ issues[i].timestamp = Isoformat(events[issue_src[i]].timestamp)
          /\ \E r \in 1..Len(events) :
                /\ issues[i].plate = events[r].plate
                /\ issues[i].timestamp = Isoformat(events[r].timestamp)

\* ENTRY@1, ENTRY@2 of one plate and a hazard row: three issues of three
\* kinds, the first carrying the timestamp of the superseded ENTRY
C15_Witness ==
    /\ Done
    /\ Len(events) = 3
    /\ events[1].plate = PlateA /\ events[1].event = ENTRY /\ events[1].timestamp = 1
    /\ events[2].plate = PlateA /\ events[2].event = ENTRY /\ events[2].timestamp = 2
    /\ events[3].plate = HazardPlate
    /\ issues = <<Issue(HazardPlate, HAZARD_PLATE, events[3].timestamp),
                  Issue(PlateA, CONSECUTIVE_ENTRY, 1),
                  Issue(PlateA, ENTRY_WITHOUT_EXIT, 2)>>

-----------------------------------------------------------------------------
(* C16 *)

\* the frame load_events returned is the one handed to build_intervals
Loaded == pc = "start"

\* C16: every row load_events hands to build_intervals has a plate that is
\* not empty, a parsed timestamp, and an event text that is the entry
\* marker or the exit marker.
C16_InputContract ==
    Loaded => \A r \in 1..Len(events) :
                 /\ events[r].plate # <<>>
                 /\ events[r].timestamp \in Nat
                 /\ events[r].event \in {ENTRY, EXIT}

\* What does hold of the frame main hands on (SpecLoad): the plate is not
\* empty, not "NAN", stripped and in upper case, the timestamp has parsed,
\* and the frame is not empty.
LoadedPlatesAndTimes ==
    Loaded =>
        /\ events # <<>>
        /\ \A r \in 1..Len(events) :
              /\ events[r].plate \notin {<<>>, <<"N", "A", "N">>}
              /\ events[r].plate = Upper(Strip(events[r].plate))
              /\ events[r].timestamp \in Nat

-----------------------------------------------------------------------------
(* C17 *)

\* v is a whole number nearest to n / d: the nearest one, or on a tie either
\* of the two
Rounds(v, n, d) == 2 * (d * v - n) \in -d..d

\* C17: in every row of the monthly frame total_hours is round(sum / 60, 2)
\* and total_minutes is round(sum, 2), both of the unrounded sum of the
\* group's duration_minutes (the sum counts thousandths of a minute,
\* total_minutes hundredths of a minute, total_hours hundredths of an hour).
\* Where the sum lies on a tie the doubles decide between the two nearest.
C17_BothFromUnroundedSum ==
    Summarized => \A i \in 1..Len(monthly.rows) :
                     /\ Rounds(monthly.rows[i].total_hours, MinutesOf(i), 600)
                     /\ Rounds(monthly.rows[i].total_minutes, MinutesOf(i), 10)

\* two stays of 0.448 minutes in one group: the sum 0.896 gives 0.9 minutes
\* and 0.01 hours, where 0.9 / 60 = 0.015 would have given 0.02 or 0.01, and
\* gives 0.02 in doubles
C17_Witness ==
    /\ Summarized
    /\ Len(intervals_df.rows) = 2
    /\ Len(monthly.rows) = 1
    /\ MinutesOf(1) = 896
    /\ monthly.rows[1].total_minutes = 90
    /\ monthly.rows[1].total_hours = 1
    /\ ~Rounds(2, MinutesOf(1), 600)

\* What the doubles do on a tie (SpecMonthly): a group of one stay of 2.7
\* minutes has 0.05 hours, of 8.1 minutes 0.13 hours and of 11.7 minutes
\* 0.19 hours; of 0.545 minutes 0.55 minutes, of 0.575 minutes 0.57 minutes
\* and of 1.015 minutes 1.01 minutes; stays of 0.1 and 0.2 minutes have 0.01
\* hours, one stay of 0.3 minutes has 0.
TiesByDoubles ==
    Summarized /\ Len(monthly.rows) = 1 =>
        LET row == monthly.rows[1]
            one == Len(intervals_df.rows) = 1
        IN  /\ one /\ MinutesOf(1) = 2700 => row.total_hours = 5
            /\ one /\ MinutesOf(1) = 8100 => row.total_hours = 13
            /\ one /\ MinutesOf(1) = 11700 => row.total_hours = 19
            /\ one /\ MinutesOf(1) = 545 => row.total_minutes = 55
            /\ one /\ MinutesOf(1) = 575 => row.total_minutes = 57
            /\ one /\ MinutesOf(1) = 1015 => row.total_minutes = 101
            /\ one /\ MinutesOf(1) = 300 => row.total_hours = 0
            /\ (/\ Len(intervals_df.rows) = 2
                /\ {intervals_df.rows[j].duration_minutes : j \in 1..2} = {100, 200})
                  => row.total_hours = 1

\* The nearest whole number taken off a tie is what the doubles give
\* (SpecMonthly).
NearestIsByDoubles ==
    Summarized => \A i \in 1..Len(monthly.rows) :
        LET rows == RowsOfKey(intervals_df, [plate |-> monthly.rows[i].plate,
                                             month |-> monthly.rows[i].month])
            x == GroupSum(rows)
        IN  /\ monthly.rows[i].total_hours = Round2(FDiv(x, 60))
            /\ monthly.rows[i].total_minutes = Round2(x)

-----------------------------------------------------------------------------
(* C18 *)

\* C18: at every row of a walk an open ENTRY is not later than the row, so
\* that no duration is negative and no issue "EXIT earlier than ENTRY" is
\* ever appended.
C18_NoExitBeforeEntry ==
    /\ (Walking /\ open_entry # None) => open_entry[1] <= Row.timestamp
    /\ \A i \in 1..Len(issues) : issues[i].issue # EXIT_BEFORE_ENTRY

\* a batch that lists the EXIT@2 of a plate before its ENTRY@1: the walk
\* stands at the EXIT with the ENTRY open
C18_Witness ==
    /\ Walking
    /\ Len(events) = 2
    /\ events[1].event = EXIT /\ events[1].timestamp = 2
    /\ events[2].event = ENTRY /\ events[2].timestamp = 1
    /\ group = <<2, 1>>
    /\ pos = 2
    /\ open_entry = Some(1)

-----------------------------------------------------------------------------
(* C19 *)

\* the <<entry row, exit row>> of the intervals of the plate just walked
PairsWalked ==
    {interval_src[i] : i \in {j \in 1..Len(interval_src) : intervals[j].plate = plate}}

\* the ENTRY rows immediately followed by an EXIT row in the sorted sequence
\* of the ENTRY and EXIT rows of the plate just walked
AdjacentPairs ==
    {<<MarkerRows[k], MarkerRows[k + 1]>> :
        k \in {n \in 1..(Len(MarkerRows) - 1) :
                  /\ events[MarkerRows[n]].event = ENTRY
                  /\ events[MarkerRows[n + 1]].event = EXIT}}

\* C19: the intervals of a plate that is no hazard plate are exactly the
\* adjacent (ENTRY, EXIT) pairs of its sorted sequence of ENTRY and EXIT
\* rows, one interval for each; no interval spans another ENTRY or EXIT of
\* the plate.
C19_AdjacentPairsOnly ==
    WalkEnded =>
        /\ PairsWalked = AdjacentPairs
        /\ Len(IntervalsOf(plate)) = Cardinality(AdjacentPairs)
        /\ \A i \in 1..Len(intervals) :
              intervals[i].plate = plate =>
                  /\ intervals[i].entry_time = events[interval_src[i][1]].timestamp
                  /\ intervals[i].exit_time = events[interval_src[i][2]].timestamp

\* ENTRY@1, ENTRY@2, EXIT@3: the EXIT is paired with the second ENTRY only
C19_Witness ==
    /\ WalkEnded
    /\ Len(events) = 3
    /\ events[1].event = ENTRY /\ events[1].timestamp = 1
    /\ events[2].event = ENTRY /\ events[2].timestamp = 2
    /\ events[3].event = EXIT /\ events[3].timestamp = 3
    /\ MarkerRows = <<1, 2, 3>>
    /\ interval_src = <<<<2, 3>>>>

-----------------------------------------------------------------------------
(* C20 *)

\* C20: the intervals of a plate are emitted in chronological order and do
\* not overlap: of two intervals of one plate the earlier emitted ends no
\* later than the other begins.
C20_ChronologicalNoOverlap ==
    \A i, j \in 1..Len(intervals) :
        (i < j /\ intervals[i].plate = intervals[j].plate) =>
            /\ intervals[i].exit_time <= intervals[j].entry_time
            /\ intervals[i].entry_time <= intervals[j].entry_time

\* a batch in reverse order, EXIT@4, ENTRY@3, EXIT@2, ENTRY@1: two stays,
\* emitted as (1, 2) and then (3, 4)
C20_Witness ==
    /\ Done
    /\ Len(events) = 4
    /\ \A r \in 1..4 : events[r].timestamp = 5 - r
    /\ interval_src = <<<<4, 3>>, <<2, 1>>>>
    /\ intervals = <<Interval(PlateA, 1, 2), Interval(PlateA, 3, 4)>>

=============================================================================
